---- MODULE Spec2Model ----
(***************************************************************************)
(* GhostSignal agent: the commit-reveal lifecycle of GhostAgent            *)
(* (agent/src/ghost_agent.py), the HTTP client it drives                   *)
(* (agent/src/midnight_client.py) and the commitment scheme                *)
(* (agent/src/commit_reveal.py).                                           *)
(*                                                                         *)
(* Modelling conventions                                                   *)
(*  - time.time() is the integer clock `now`, advanced by Tick.            *)
(*  - a dict is the sequence of its <<key, value>> pairs in insertion      *)
(*    order; json.dumps(.., sort_keys=True) is the sequence sorted by key. *)
(*  - SHA-256 is collision free: the digest of a payload is the payload    *)
(*    tagged "sha256".                                                     *)
(*  - os.urandom(32) never repeats: the n-th draw is the salt n.           *)
(*  - Python's None is the record [none |-> TRUE]; a commitment id is a   *)
(*    record naming who issued it and its number.                         *)
(***************************************************************************)
EXTENDS Integers, Sequences, FiniteSets, TLC

\* ------------------------------------------------------------------ bounds
MaxCap == 2
MaxDelay == 1
MaxTime == MaxDelay
MaxCommits == 2
MaxCount == 3

\* ------------------------------------------------------- program constants
min_confidence == 60
default_stake == 100

None == [none |-> TRUE]

VARIABLES
    max_active_commitments,  \* AgentConfig.max_active_commitments
    reveal_delay,            \* AgentConfig.reveal_delay
    active_commitments,      \* GhostAgent.active_commitments (list)
    total_committed,         \* GhostAgent.total_committed
    total_revealed,          \* GhostAgent.total_revealed
    total_verified,          \* GhostAgent.total_verified
    now,                     \* time.time()
    salts_drawn,             \* number of os.urandom(32) draws so far
    commit_posts,            \* POSTs to /api/commit of the latest run_cycle
    reveal_posts,            \* POSTs to /api/reveal of the latest reveal pass
    revealed,                \* salts of the records removed after a reveal
    stats,                   \* dict returned by get_stats, None once the
                             \* agent has run another operation
    cr_first,                \* first call of CommitReveal.create_commitment
    cr_second,               \* latest further call of create_commitment
    cr_verify,               \* latest call of CommitReveal.verify_commitment
    pc,                      \* position of GhostAgent.run in its while-loop
    pair_idx,                \* index into config.pairs of the for-loop of run
    iter_full,               \* the active set was full when this iteration
                             \* of run began
    iter_published,          \* records appended so far by this iteration
    iter_revealed,           \* the reveal pass of this iteration has run
    entropy_failed,          \* os.urandom has raised in some iteration
    ledger_commits,          \* salts of the digests the ledger has accepted
    ledger_reveals,          \* salts of the reveals the ledger has accepted
    callers                  \* position of each concurrent caller of
                             \* run_cycle

\* The agent, its configuration, the clock and the network
engine_vars == <<max_active_commitments, reveal_delay, active_commitments,
                 total_committed, total_revealed, total_verified, now,
                 salts_drawn, commit_posts, reveal_posts, revealed>>

\* The calls made to CommitReveal on its own
codec_vars == <<cr_first, cr_second, cr_verify>>

\* The scheduler loop GhostAgent.run and the ledger it talks to
loop_vars == <<pc, pair_idx, iter_full, iter_published, iter_revealed,
               entropy_failed, ledger_commits, ledger_reveals>>

\* Callers of run_cycle on several threads
conc_vars == <<callers>>

vars == <<engine_vars, stats, codec_vars, loop_vars, conc_vars>>

\* --------------------------------------------------------------- decisions
Directions == {"BUY"}
Pairs == {"BTC/USD"}
Confidences == {59, 60}
TargetPrices == {100}

\* The dict a strategy returns (strategy.py: every analyze() builds the same
\* keys in the same order).
analyze(direction, pair, target_price, confidence) ==
    << <<"direction", direction>>,
       <<"pair", pair>>,
       <<"target_price", target_price>>,
       <<"confidence", confidence>>,
       <<"timestamp", now>> >>

\* d[key]
Get(d, key) == d[CHOOSE i \in DOMAIN d : d[i][1] = key][2]

\* ------------------------------------------------------- commitment scheme
\* The keys in lexicographic order, as sorted() compares them.
KeyOrder == <<"confidence", "direction", "pair", "target_price", "timestamp">>

InKeys(d, k) == \E i \in DOMAIN d : d[i][1] = k

\* json.dumps(signal, sort_keys=True)
json_dumps_sorted(d) ==
    LET present == SelectSeq(KeyOrder, LAMBDA k : InKeys(d, k))
    IN  [i \in DOMAIN present |-> <<present[i], Get(d, present[i])>>]

sha256(payload) == <<"sha256", payload>>

\* Faulty variant: json.dumps without sort_keys
create_commitment_unsorted(signal, salt) ==
    <<sha256(<<signal, salt>>), salt>>

\* CommitReveal.create_commitment with the salt drawn by os.urandom
create_commitment(signal, salt) ==
    <<sha256(<<json_dumps_sorted(signal), salt>>), salt>>

\* CommitReveal.hash_signal
hash_signal(signal, salt) == sha256(<<json_dumps_sorted(signal), salt>>)

\* Faulty variant: the recomputation serialises without sort_keys
verify_commitment_unsorted(commitment_hash, signal, salt) ==
    sha256(<<signal, salt>>) = commitment_hash

\* CommitReveal.verify_commitment
verify_commitment(commitment_hash, signal, salt) ==
    sha256(<<json_dumps_sorted(signal), salt>>) = commitment_hash

\* ------------------------------------------------------------- HTTP client
\* What the POST to /api/commit can do.
CommitOutcomes == {"ok_id", "ok_noid", "conn_error", "req_error"}

\* What the POST to /api/reveal can do.
RevealOutcomes == {"ok_verified", "ok_unverified", "conn_error", "req_error"}

\* Faulty variant: the publish payload also carries the salt
\* (the second component of what the digest was computed from)
commit_payload_leaky(commitment_hash, stake) ==
    [commitment_hash |-> commitment_hash, stake_amount |-> stake,
     timestamp |-> now, salt |-> commitment_hash[2][2]]

commit_payload(commitment_hash, stake) ==
    [commitment_hash |-> commitment_hash, stake_amount |-> stake,
     timestamp |-> now]

\* MidnightClient.commit_signal: the dict returned (its commitment_id may be
\* the JSON value null), or the exception raised
commit_signal(commitment_hash, stake, outcome) ==
    CASE outcome = "ok_id" ->
            [raised |-> FALSE, has_id |-> TRUE,
             commitment_id |-> [by |-> "ledger", n |-> salts_drawn + 1],
             status |-> "ok"]
      [] outcome = "ok_noid" ->
            [raised |-> FALSE, has_id |-> FALSE, commitment_id |-> None,
             status |-> "ok"]
      [] outcome = "conn_error" ->
            [raised |-> FALSE, has_id |-> TRUE,
             commitment_id |-> [by |-> "offline", n |-> now], status |-> "offline"]
      [] outcome = "ok_null_id" ->
            [raised |-> FALSE, has_id |-> TRUE, commitment_id |-> None,
             status |-> "ok"]
      [] OTHER ->
            [raised |-> TRUE, has_id |-> FALSE, commitment_id |-> None,
             status |-> "error"]

reveal_payload(commitment_id, signal, salt) ==
    [commitment_id |-> commitment_id, signal |-> signal, salt |-> salt,
     timestamp |-> now]

\* MidnightClient.reveal_signal: what response.json() returned (a dict, or
\* None for the JSON document null), or the exception raised
client_reveal_signal(commitment_id, signal, salt, outcome) ==
    CASE outcome = "ok_verified" ->
            [raised |-> FALSE, commitment_id |-> commitment_id,
             status |-> "revealed", verified |-> TRUE]
      [] outcome = "ok_unverified" ->
            [raised |-> FALSE, commitment_id |-> commitment_id,
             status |-> "revealed", verified |-> FALSE]
      [] outcome = "conn_error" ->
            [raised |-> FALSE, commitment_id |-> commitment_id,
             status |-> "offline", verified |-> FALSE]
      [] outcome = "ok_null" -> None
      [] OTHER ->
            [raised |-> TRUE, commitment_id |-> commitment_id,
             status |-> "error", verified |-> FALSE]

\* ------------------------------------------------------------------- agent
\* Faulty variant: the counter fallback is also taken when the call raised
submit_commitment_swallow(commitment_hash, stake, outcome) ==
    LET result == commit_signal(commitment_hash, stake, outcome)
    IN  IF result.has_id THEN result.commitment_id
        ELSE [by |-> "counter", n |-> total_committed]

\* Faulty variant: the id of the response is ignored for the counter
submit_commitment_counter(commitment_hash, stake, outcome) ==
    LET result == commit_signal(commitment_hash, stake, outcome)
    IN  IF result.raised THEN None
        ELSE [by |-> "counter", n |-> total_committed]

\* GhostAgent.submit_commitment: the id returned (None on failure)
submit_commitment(commitment_hash, stake, outcome) ==
    LET result == commit_signal(commitment_hash, stake, outcome)
    IN  IF result.raised THEN None
        ELSE IF result.has_id THEN result.commitment_id
        ELSE [by |-> "counter", n |-> total_committed]

\* Faulty variant: an exception of the client is returned as a result
reveal_signal_swallow(commitment_id, signal, salt, outcome) ==
    client_reveal_signal(commitment_id, signal, salt, outcome)

\* GhostAgent.reveal_signal: the result returned (None on failure)
reveal_signal(commitment_id, signal, salt, outcome) ==
    LET result == client_reveal_signal(commitment_id, signal, salt, outcome)
    IN  IF result = None THEN None
        ELSE IF result.raised THEN None
        ELSE result

\* GhostAgent.reveal_signal: whether total_revealed += 1 is reached, that is
\* whether the call of the client returned
reveal_counted(commitment_id, signal, salt, outcome) ==
    LET result == client_reveal_signal(commitment_id, signal, salt, outcome)
    IN  IF result = None THEN TRUE ELSE ~result.raised

\* GhostAgent.submit_commitment: whether total_committed += 1 is reached,
\* that is whether the call of the client returned
submit_counted(commitment_hash, stake, outcome) ==
    ~commit_signal(commitment_hash, stake, outcome).raised

\* Faulty variant: off by one (> for >=)
AtCapacity_gt == Len(active_commitments) > max_active_commitments

\* Faulty variant: a limit of 0 read as "no limit"
AtCapacity_zero_unlimited ==
    /\ max_active_commitments # 0
    /\ Len(active_commitments) >= max_active_commitments

\* run_cycle's commitment-limit check
AtCapacity == Len(active_commitments) >= max_active_commitments

\* Faulty variant: the filter lets a decision one point below the threshold
\* through
BelowConfidence_lenient(signal) ==
    Get(signal, "confidence") < min_confidence - 1

\* run_cycle's confidence filter
BelowConfidence(signal) == Get(signal, "confidence") < min_confidence

\* Faulty variant: reveal_after without the delay
NewCommitment_nodelay(commitment_id, commitment_hash, salt, signal) ==
    [commitment_id |-> commitment_id,
     commitment_hash |-> commitment_hash,
     salt |-> salt,
     signal |-> signal,
     stake |-> default_stake,
     committed_at |-> now,
     reveal_after |-> now]

\* The ActiveCommitment run_cycle appends
NewCommitment(commitment_id, commitment_hash, salt, signal) ==
    [commitment_id |-> commitment_id,
     commitment_hash |-> commitment_hash,
     salt |-> salt,
     signal |-> signal,
     stake |-> default_stake,
     committed_at |-> now,
     reveal_after |-> now + reveal_delay]

\* GhostAgent.run_cycle from "Generate signal" on (lines 236-264), with the
\* signal the strategy generated and the behaviour of the network during
\* the publish call
RunCycleBody(signal, outcome) ==
    /\ IF BelowConfidence(signal)
       THEN /\ commit_posts' = <<>>
            /\ UNCHANGED <<salts_drawn, total_committed, active_commitments>>
       ELSE
            /\ salts_drawn < MaxCommits
            /\ LET cs == create_commitment(signal, salts_drawn + 1)
                   commitment_hash == cs[1]
                   salt == cs[2]
                   commitment_id ==
                       submit_commitment(commitment_hash, default_stake,
                                         outcome)
               IN  /\ salts_drawn' = salts_drawn + 1
                   /\ commit_posts' =
                          <<[payload |-> commit_payload(commitment_hash,
                                                        default_stake),
                             outcome |-> outcome]>>
                   /\ total_committed' =
                          IF submit_counted(commitment_hash, default_stake,
                                            outcome)
                          THEN total_committed + 1
                          ELSE total_committed
                   /\ IF commitment_id # None
                      THEN active_commitments' =
                               Append(active_commitments,
                                      NewCommitment(commitment_id,
                                                    commitment_hash,
                                                    salt, signal))
                      ELSE UNCHANGED active_commitments
    /\ stats' = None
    /\ UNCHANGED <<max_active_commitments, reveal_delay, total_revealed,
                   total_verified, now, reveal_posts, revealed, codec_vars>>

\* GhostAgent.run_cycle: the capacity check, then the rest
RunCycle(signal, outcome) ==
    IF AtCapacity
    THEN /\ commit_posts' = <<>>
         /\ stats' = None
         /\ UNCHANGED <<salts_drawn, total_committed, active_commitments,
                        max_active_commitments, reveal_delay, total_revealed,
                        total_verified, now, reveal_posts, revealed,
                        codec_vars>>
    ELSE RunCycleBody(signal, outcome)

\* Faulty variant: ready as soon as committed
IsReady_committed(c) == now >= c.committed_at

\* Faulty variant: ready only after reveal_after has passed (> for >=)
IsReady_strict(c) == now > c.reveal_after

\* Faulty variant: ready only at the very second of reveal_after (== for >=)
IsReady_exact(c) == now = c.reveal_after

\* process_reveals' selection of the commitments to reveal
IsReady(c) == now >= c.reveal_after

Ready == SelectSeq(active_commitments, IsReady)

\* Faulty variant: list.pop(), which drops the last element
Remove_pop(list, x) == SubSeq(list, 1, Len(list) - 1)

\* list.remove(x): drops the first element equal to x
Remove(list, x) ==
    LET i == CHOOSE j \in DOMAIN list :
                 list[j] = x /\ \A k \in 1..(j - 1) : list[k] # x
    IN  SubSeq(list, 1, i - 1) \o SubSeq(list, i + 1, Len(list))

\* Faulty variant: the loop walks self.active_commitments itself instead of
\* the list ready, so that a remove shifts the records under the iterator
RECURSIVE RevealLoop_live(_, _, _, _)
RevealLoop_live(ready, outcomes, i, st) ==
    IF i > Len(st.active) THEN st
    ELSE
        LET c == st.active[i]
        IN  IF ~(now >= c.reveal_after)
            THEN RevealLoop_live(ready, outcomes, i + 1, st)
            ELSE
                LET k == CHOOSE j \in DOMAIN ready : ready[j] = c
                    result == reveal_signal(c.commitment_id, c.signal,
                                            c.salt, outcomes[k])
                    post == [payload |-> reveal_payload(c.commitment_id,
                                                        c.signal, c.salt),
                             outcome |-> outcomes[k]]
                    next ==
                        IF result # None
                        THEN [active |-> Remove(st.active, c),
                              n_revealed |-> st.n_revealed + 1,
                              posts |-> Append(st.posts, post),
                              removed |-> st.removed \cup {c.salt}]
                        ELSE [st EXCEPT !.posts = Append(st.posts, post)]
                IN  RevealLoop_live(ready, outcomes, i + 1, next)

\* The loop body of process_reveals applied to ready[i..], from the state st
RECURSIVE RevealLoop(_, _, _, _)
RevealLoop(ready, outcomes, i, st) ==
    IF i > Len(ready) THEN st
    ELSE
        LET c == ready[i]
            result == reveal_signal(c.commitment_id, c.signal, c.salt,
                                    outcomes[i])
            post == [payload |-> reveal_payload(c.commitment_id, c.signal,
                                                c.salt),
                     outcome |-> outcomes[i]]
            counted == IF reveal_counted(c.commitment_id, c.signal, c.salt,
                                         outcomes[i])
                       THEN 1 ELSE 0
            next ==
                IF result # None
                THEN [active |-> Remove(st.active, c),
                      n_revealed |-> st.n_revealed + counted,
                      posts |-> Append(st.posts, post),
                      removed |-> st.removed \cup {c.salt}]
                ELSE [st EXCEPT !.posts = Append(st.posts, post),
                                !.n_revealed = st.n_revealed + counted]
        IN  RevealLoop(ready, outcomes, i + 1, next)

\* GhostAgent.process_reveals with the behaviour of the network during each
\* reveal call
ProcessReveals(outcomes) ==
    LET st == RevealLoop(Ready, outcomes, 1,
                         [active |-> active_commitments,
                          n_revealed |-> total_revealed,
                          posts |-> <<>>,
                          removed |-> revealed])
    IN  /\ active_commitments' = st.active
        /\ total_revealed' = st.n_revealed
        /\ reveal_posts' = st.posts
        /\ revealed' = st.removed
        /\ stats' = None
        /\ UNCHANGED <<max_active_commitments, reveal_delay, total_committed,
                       total_verified, now, salts_drawn, commit_posts,
                       codec_vars>>

\* The wall clock advances
Tick ==
    /\ now < MaxTime
    /\ now' = now + 1
    /\ UNCHANGED <<max_active_commitments, reveal_delay, active_commitments,
                   total_committed, total_revealed, total_verified,
                   salts_drawn, commit_posts, reveal_posts, revealed,
                   stats, codec_vars, loop_vars, conc_vars>>

Signals ==
    {analyze(d, p, tp, c) :
        d \in Directions, p \in Pairs, tp \in TargetPrices, c \in Confidences}

RunCycleStep == \E signal \in Signals, outcome \in CommitOutcomes :
                    /\ RunCycle(signal, outcome)
                    /\ UNCHANGED <<loop_vars, conc_vars>>

ProcessRevealsStep ==
    \E outcomes \in [1..Len(Ready) -> RevealOutcomes] :
        /\ ProcessReveals(outcomes)
        /\ UNCHANGED <<loop_vars, conc_vars>>

\* GhostAgent.run has not been entered, and nobody else calls the agent
Idle ==
    /\ pc = "reveals"
    /\ pair_idx = 1
    /\ iter_full = (Len(active_commitments) >= max_active_commitments)
    /\ iter_published = 0
    /\ iter_revealed = FALSE
    /\ entropy_failed = FALSE
    /\ ledger_commits = {}
    /\ ledger_reveals = {}
    /\ callers = [t \in 1..2 |-> "idle"]

\* GhostAgent.__init__ under a configuration
Init ==
    /\ max_active_commitments \in 0..MaxCap
    /\ reveal_delay \in 0..MaxDelay
    /\ active_commitments = <<>>
    /\ total_committed = 0
    /\ total_revealed = 0
    /\ total_verified = 0
    /\ now = 0
    /\ salts_drawn = 0
    /\ commit_posts = <<>>
    /\ reveal_posts = <<>>
    /\ revealed = {}
    /\ stats = None
    /\ cr_first = None
    /\ cr_second = None
    /\ cr_verify = None
    /\ Idle

Next == RunCycleStep \/ ProcessRevealsStep \/ Tick

Spec == Init /\ [][Next]_vars

\* The agent when every call either is answered by the ledger or raises
LiveRunCycleStep ==
    \E signal \in Signals, outcome \in {"ok_id", "req_error"} :
        /\ RunCycle(signal, outcome)
        /\ UNCHANGED <<loop_vars, conc_vars>>

LiveRevealsStep ==
    \E outcomes \in [1..Len(Ready) -> {"ok_verified", "req_error"}] :
        /\ ProcessReveals(outcomes)
        /\ UNCHANGED <<loop_vars, conc_vars>>

\* A reveal pass in which the ledger answers every reveal call
AcceptedPass ==
    /\ ProcessReveals([i \in 1..Len(Ready) |-> "ok_verified"])
    /\ UNCHANGED <<loop_vars, conc_vars>>

LiveNext == LiveRunCycleStep \/ LiveRevealsStep \/ Tick

\* The agent under a scheduler that keeps running reveal passes (the
\* while-loop of run), a clock that keeps advancing and a ledger that does
\* not refuse for ever
LiveSpec ==
    /\ Init
    /\ [][LiveNext]_vars
    /\ WF_vars(Tick)
    /\ WF_vars(AcceptedPass)

\* ------------------------------------------------------------- statistics
\* A float that is the quotient of two integers is kept as that quotient.
Ratio(num, den) == [num |-> num, den |-> den]

\* Faulty variant: the active count is the number of commitments to reveal
get_stats_ready ==
    [name |-> "GhostAgent-Alpha",
     total_committed |-> total_committed,
     total_revealed |-> total_revealed,
     total_verified |-> total_verified,
     active_commitments |-> Len(Ready),
     win_rate |-> IF total_revealed > 0
                  THEN Ratio(total_verified * 100, total_revealed)
                  ELSE Ratio(0, 1)]

\* Faulty variant: floor division (// for /)
get_stats_floordiv ==
    [name |-> "GhostAgent-Alpha",
     total_committed |-> total_committed,
     total_revealed |-> total_revealed,
     total_verified |-> total_verified,
     active_commitments |-> Len(active_commitments),
     win_rate |-> IF total_revealed > 0
                  THEN Ratio((total_verified \div total_revealed) * 100, 1)
                  ELSE Ratio(0, 1)]

\* The dict GhostAgent.get_stats returns
get_stats ==
    [name |-> "GhostAgent-Alpha",
     total_committed |-> total_committed,
     total_revealed |-> total_revealed,
     total_verified |-> total_verified,
     active_commitments |-> Len(active_commitments),
     win_rate |-> IF total_revealed > 0
                  THEN Ratio(total_verified * 100, total_revealed)
                  ELSE Ratio(0, 1)]

\* A call of GhostAgent.get_stats
GetStats ==
    /\ stats' = get_stats
    /\ UNCHANGED <<engine_vars, codec_vars, loop_vars, conc_vars>>

\* The agent with a caller that also reads the statistics
StatsNext == RunCycleStep \/ ProcessRevealsStep \/ Tick \/ GetStats

StatsSpec == Init /\ [][StatsNext]_vars

\* get_stats alone, over the counters an agent can hold:
\* total_verified <= total_revealed <= total_committed
WinRateInit ==
    /\ max_active_commitments \in 0..MaxCap
    /\ reveal_delay \in 0..MaxDelay
    /\ active_commitments = <<>>
    /\ total_revealed \in 0..MaxCount
    /\ total_verified \in 0..total_revealed
    /\ total_committed = total_revealed
    /\ now = 0
    /\ salts_drawn = 0
    /\ commit_posts = <<>>
    /\ reveal_posts = <<>>
    /\ revealed = {}
    /\ stats = None
    /\ cr_first = None
    /\ cr_second = None
    /\ cr_verify = None
    /\ Idle

WinRateNext == GetStats

WinRateSpec == WinRateInit /\ [][WinRateNext]_vars

\* ------------------------------------------- the commitment scheme alone
\* Decisions handed to CommitReveal: the same three keys in every insertion
\* order, two directions.
CodecDirections == {"BUY", "SELL"}

CodecFields(direction) ==
    << <<"direction", direction>>, <<"pair", "BTC/USD">>, <<"confidence", 80>> >>

Orders3 == {<<1, 2, 3>>, <<1, 3, 2>>, <<2, 1, 3>>,
            <<2, 3, 1>>, <<3, 1, 2>>, <<3, 2, 1>>}

CodecDecisions ==
    {[i \in 1..3 |-> CodecFields(d)[o[i]]] : d \in CodecDirections, o \in Orders3}

\* Salts passed explicitly (the salt argument of create_commitment)
CodecSalts == {1, 2}

\* Python's dict equality: the same key/value pairs, in any order
SameDict(d1, d2) ==
    /\ Len(d1) = Len(d2)
    /\ \A i \in DOMAIN d1 :
          \E j \in DOMAIN d2 : d1[i][1] = d2[j][1] /\ d1[i][2] = d2[j][2]

\* The same keys, and exactly one of them with another value
DiffersInOneField(d1, d2) ==
    /\ Len(d1) = Len(d2)
    /\ \A i \in DOMAIN d1 : InKeys(d2, d1[i][1])
    /\ Cardinality({i \in DOMAIN d1 : Get(d2, d1[i][1]) # d1[i][2]}) = 1

\* A call create_commitment(signal, salt)
CodecCommit(signal, salt) ==
    LET cs == create_commitment(signal, salt)
        call == [signal |-> signal, salt |-> cs[2], digest |-> cs[1]]
    IN  /\ IF cr_first = None
           THEN cr_first' = call /\ UNCHANGED cr_second
           ELSE cr_second' = call /\ UNCHANGED cr_first
        /\ UNCHANGED <<cr_verify, stats, engine_vars, loop_vars, conc_vars>>

\* The digests produced so far
CodecDigests ==
    (IF cr_first = None THEN {} ELSE {cr_first.digest})
        \cup (IF cr_second = None THEN {} ELSE {cr_second.digest})

\* A call verify_commitment(commitment_hash, signal, salt)
CodecVerify(commitment_hash, signal, salt) ==
    /\ cr_verify' = [commitment_hash |-> commitment_hash,
                     signal |-> signal,
                     salt |-> salt,
                     result |-> verify_commitment(commitment_hash, signal,
                                                  salt)]
    /\ UNCHANGED <<cr_first, cr_second, stats, engine_vars, loop_vars,
                   conc_vars>>

CodecCommitStep ==
    \E signal \in CodecDecisions, salt \in CodecSalts :
        CodecCommit(signal, salt)

CodecVerifyStep ==
    \E commitment_hash \in CodecDigests, signal \in CodecDecisions,
       salt \in CodecSalts :
        CodecVerify(commitment_hash, signal, salt)

\* No agent is running: only CommitReveal is called
CodecInit ==
    /\ max_active_commitments = 0
    /\ reveal_delay = 0
    /\ active_commitments = <<>>
    /\ total_committed = 0
    /\ total_revealed = 0
    /\ total_verified = 0
    /\ now = 0
    /\ salts_drawn = 0
    /\ commit_posts = <<>>
    /\ reveal_posts = <<>>
    /\ revealed = {}
    /\ stats = None
    /\ cr_first = None
    /\ cr_second = None
    /\ cr_verify = None
    /\ Idle

CodecNext == CodecCommitStep \/ CodecVerifyStep

CodecSpec == CodecInit /\ [][CodecNext]_vars

\* The create_commitment calls made so far
CodecCalls ==
    (IF cr_first = None THEN {} ELSE {cr_first})
        \cup (IF cr_second = None THEN {} ELSE {cr_second})

\* ------------------------------------------------------ auxiliary notions
\* The salts of the records of a list (a salt identifies its record)
SaltsOf(list) == {list[i].salt : i \in DOMAIN list}

\* How many records of a list carry the salt s
CountSalt(list, s) == Cardinality({i \in DOMAIN list : list[i].salt = s})

\* How many posts of a reveal pass carry the salt s
CountPosts(posts, s) ==
    Cardinality({i \in DOMAIN posts : posts[i].payload.salt = s})

\* The posts of a pass that did not end in an exception
NotRaised(posts) == {i \in DOMAIN posts : posts[i].outcome # "req_error"}

\* This step is a reveal pass: process_reveals ran, and the network behaved
\* during each reveal call as the posts of the pass record
RevealPass ==
    /\ Len(reveal_posts') = Len(Ready)
    /\ ProcessReveals([i \in 1..Len(Ready) |-> reveal_posts'[i].outcome])

\* ------------------------------------------------------ the scheduler loop
\* AgentConfig.pairs
pairs == <<"BTC/USD", "ETH/USD">>

\* Faulty variant: the for-loop over the pairs comes before process_reveals
StageAfter_publish_first(stage) ==
    CASE stage = "pairs" -> "reveals"
      [] stage = "reveals" -> "sleep"
      [] OTHER -> "pairs"

\* The order of the statements in the try block of run: process_reveals,
\* the for-loop over the pairs, asyncio.sleep, and round again
StageAfter(stage) ==
    CASE stage = "reveals" -> "pairs"
      [] stage = "pairs" -> "sleep"
      [] OTHER -> "reveals"

\* The salts of the reveals the ledger accepted among the calls of a pass
AcceptedBy(ready, outcomes) ==
    {ready[i].salt : i \in {j \in DOMAIN ready :
                                outcomes[j] \in {"ok_verified",
                                                 "ok_unverified"}}}

\* run: await self.process_reveals()
LoopReveals(outcomes) ==
    /\ pc = "reveals"
    /\ ProcessReveals(outcomes)
    /\ ledger_reveals' = ledger_reveals \cup AcceptedBy(Ready, outcomes)
    /\ iter_revealed' = TRUE
    /\ pc' = StageAfter("reveals")
    /\ UNCHANGED <<pair_idx, iter_full, iter_published, entropy_failed,
                   ledger_commits, conc_vars>>

\* run: KeyboardInterrupt is raised while the k-th reveal call of the pass is
\* in flight, after the ledger accepted the request or before; the exception
\* is no Exception, so it leaves reveal_signal and process_reveals and
\* reaches the break of run
LoopRevealsInterrupted(k, outcomes, accepted) ==
    /\ pc = "reveals"
    /\ LET before == SubSeq(Ready, 1, k - 1)
           c == Ready[k]
           st == RevealLoop(before, outcomes, 1,
                            [active |-> active_commitments,
                             n_revealed |-> total_revealed,
                             posts |-> <<>>,
                             removed |-> revealed])
       IN  /\ active_commitments' = st.active
           /\ total_revealed' = st.n_revealed
           /\ revealed' = st.removed
           /\ reveal_posts' =
                  Append(st.posts,
                         [payload |-> reveal_payload(c.commitment_id,
                                                     c.signal, c.salt),
                          outcome |-> "interrupted"])
           /\ ledger_reveals' =
                  ledger_reveals \cup AcceptedBy(before, outcomes)
                      \cup (IF accepted THEN {c.salt} ELSE {})
    /\ stats' = None
    /\ pc' = "stopped"
    /\ UNCHANGED <<max_active_commitments, reveal_delay, total_committed,
                   total_verified, now, salts_drawn, commit_posts,
                   codec_vars, pair_idx, iter_full, iter_published,
                   iter_revealed, entropy_failed, ledger_commits, conc_vars>>

\* run: market_data = get_market_data(pair); await self.run_cycle(market_data)
\* for the pair at pair_idx, the strategy returning a decision of the given
\* confidence
LoopCycle(confidence, outcome) ==
    /\ pc = "pairs"
    /\ LET signal == analyze("BUY", pairs[pair_idx], 100, confidence)
           posted == ~AtCapacity /\ ~BelowConfidence(signal)
       IN  /\ RunCycle(signal, outcome)
           /\ ledger_commits' =
                  IF posted /\ outcome \in {"ok_id", "ok_noid"}
                  THEN ledger_commits \cup {salts_drawn + 1}
                  ELSE ledger_commits
    /\ iter_published' =
           iter_published + Len(active_commitments') - Len(active_commitments)
    /\ pair_idx' = IF pair_idx = Len(pairs) THEN 1 ELSE pair_idx + 1
    /\ pc' = IF pair_idx = Len(pairs) THEN StageAfter("pairs") ELSE "pairs"
    /\ UNCHANGED <<iter_full, iter_revealed, entropy_failed, ledger_reveals,
                   conc_vars>>

\* Faulty variant: an exception raised by run_cycle ends the loop
LoopCycleRaises_fatal(kind) ==
    /\ pc = "pairs"
    /\ ~AtCapacity
    /\ pc' = "stopped"
    /\ entropy_failed' = (entropy_failed \/ kind = "entropy")
    /\ UNCHANGED <<engine_vars, stats, codec_vars, pair_idx, iter_full,
                   iter_published, iter_revealed, ledger_commits,
                   ledger_reveals, conc_vars>>

\* run: run_cycle raises, either in generate_signal or at
\* signal["confidence"] (a bad decision of the strategy) or in
\* create_commitment (os.urandom fails); neither is inside a try of
\* run_cycle, and "except Exception" of run catches both
LoopCycleRaises(kind) ==
    /\ pc = "pairs"
    /\ ~AtCapacity
    /\ pc' = "error"
    /\ entropy_failed' = (entropy_failed \/ kind = "entropy")
    /\ UNCHANGED <<engine_vars, stats, codec_vars, pair_idx, iter_full,
                   iter_published, iter_revealed, ledger_commits,
                   ledger_reveals, conc_vars>>

\* run: KeyboardInterrupt is raised while the POST to /api/commit is in
\* flight, after the ledger accepted the digest or before; the exception is
\* no Exception, so it leaves submit_commitment and run_cycle and reaches
\* the break of run
LoopCycleInterrupted(confidence, accepted) ==
    /\ pc = "pairs"
    /\ LET signal == analyze("BUY", pairs[pair_idx], 100, confidence)
           cs == create_commitment(signal, salts_drawn + 1)
       IN  /\ ~AtCapacity
           /\ ~BelowConfidence(signal)
           /\ salts_drawn < MaxCommits
           /\ salts_drawn' = salts_drawn + 1
           /\ commit_posts' =
                  <<[payload |-> commit_payload(cs[1], default_stake),
                     outcome |-> "interrupted"]>>
           /\ ledger_commits' =
                  IF accepted THEN ledger_commits \cup {cs[2]}
                  ELSE ledger_commits
    /\ stats' = None
    /\ pc' = "stopped"
    /\ UNCHANGED <<max_active_commitments, reveal_delay, active_commitments,
                   total_committed, total_revealed, total_verified, now,
                   reveal_posts, revealed, codec_vars, pair_idx, iter_full,
                   iter_published, iter_revealed, entropy_failed,
                   ledger_reveals, conc_vars>>

\* run: await asyncio.sleep(signal_interval), and the next iteration begins
LoopSleep ==
    /\ pc = "sleep"
    /\ now < MaxTime
    /\ now' = now + 1
    /\ pc' = StageAfter("sleep")
    /\ iter_full' = AtCapacity
    /\ iter_published' = 0
    /\ iter_revealed' = FALSE
    /\ UNCHANGED <<max_active_commitments, reveal_delay, active_commitments,
                   total_committed, total_revealed, total_verified,
                   salts_drawn, commit_posts, reveal_posts, revealed, stats,
                   codec_vars, pair_idx, entropy_failed, ledger_commits,
                   ledger_reveals, conc_vars>>

\* run: except Exception: await asyncio.sleep(30), and the next iteration
\* begins
LoopErrorSleep ==
    /\ pc = "error"
    /\ now < MaxTime
    /\ now' = now + 1
    /\ pc' = StageAfter("sleep")
    /\ pair_idx' = 1
    /\ iter_full' = AtCapacity
    /\ iter_published' = 0
    /\ iter_revealed' = FALSE
    /\ UNCHANGED <<max_active_commitments, reveal_delay, active_commitments,
                   total_committed, total_revealed, total_verified,
                   salts_drawn, commit_posts, reveal_posts, revealed, stats,
                   codec_vars, entropy_failed, ledger_commits,
                   ledger_reveals, conc_vars>>

\* run: KeyboardInterrupt is raised between two calls or during a sleep
LoopInterrupt ==
    /\ pc # "stopped"
    /\ pc' = "stopped"
    /\ UNCHANGED <<engine_vars, stats, codec_vars, pair_idx, iter_full,
                   iter_published, iter_revealed, entropy_failed,
                   ledger_commits, ledger_reveals, conc_vars>>

\* In the loop every call either is answered by the ledger or raises
LoopCommitOutcomes == {"ok_id", "req_error"}
LoopRevealOutcomes == {"ok_verified", "req_error"}

LoopRevealsStep ==
    \E outcomes \in [1..Len(Ready) -> LoopRevealOutcomes] :
        LoopReveals(outcomes)

LoopRevealsInterruptedStep ==
    \E k \in 1..Len(Ready), accepted \in BOOLEAN :
        \E outcomes \in [1..(k - 1) -> LoopRevealOutcomes] :
            LoopRevealsInterrupted(k, outcomes, accepted)

LoopCycleStep ==
    \E confidence \in Confidences, outcome \in LoopCommitOutcomes :
        LoopCycle(confidence, outcome)

LoopCycleRaisesStep ==
    \E kind \in {"bad_decision", "entropy"} : LoopCycleRaises(kind)

LoopCycleInterruptedStep ==
    \E confidence \in Confidences, accepted \in BOOLEAN :
        LoopCycleInterrupted(confidence, accepted)

LoopNext ==
    \/ LoopRevealsStep
    \/ LoopRevealsInterruptedStep
    \/ LoopCycleStep
    \/ LoopCycleRaisesStep
    \/ LoopCycleInterruptedStep
    \/ LoopSleep
    \/ LoopErrorSleep
    \/ LoopInterrupt

\* GhostAgent.run: the sleeps return and a reveal pass returns (every call
\* of the client has a timeout)
LoopSpec ==
    /\ Init
    /\ [][LoopNext]_vars
    /\ WF_vars(LoopErrorSleep)
    /\ WF_vars(LoopRevealsStep)

\* ------------------------------------------- concurrent callers of run_cycle
\* run_cycle takes no lock. A caller on a thread of its own can be
\* descheduled after the capacity check (line 231) and is descheduled while
\* its POST blocks, so the check and the rest of run_cycle are two steps.

\* The caller t evaluates the capacity check of run_cycle
ConcCheck(t) ==
    /\ callers[t] = "idle"
    /\ IF AtCapacity
       THEN /\ commit_posts' = <<>>
            /\ UNCHANGED callers
       ELSE /\ callers' = [callers EXCEPT ![t] = "checked"]
            /\ UNCHANGED commit_posts
    /\ stats' = None
    /\ UNCHANGED <<max_active_commitments, reveal_delay, active_commitments,
                   total_committed, total_revealed, total_verified, now,
                   salts_drawn, reveal_posts, revealed, codec_vars,
                   loop_vars>>

\* The caller t, past the check, runs the rest of run_cycle
ConcBody(t, signal, outcome) ==
    /\ callers[t] = "checked"
    /\ RunCycleBody(signal, outcome)
    /\ callers' = [callers EXCEPT ![t] = "idle"]
    /\ UNCHANGED loop_vars

ConcCheckStep == \E t \in DOMAIN callers : ConcCheck(t)

ConcBodyStep ==
    \E t \in DOMAIN callers, signal \in Signals, outcome \in CommitOutcomes :
        ConcBody(t, signal, outcome)

ConcNext == ConcCheckStep \/ ConcBodyStep \/ ProcessRevealsStep \/ Tick

ConcSpec == Init /\ [][ConcNext]_vars

\* ------------------------------------- a ledger that may answer JSON null
\* response.json() returns whatever JSON document the ledger sent: the
\* commitment_id of the answer to /api/commit may be null, and the answer to
\* /api/reveal may be the document null.
NullCommitOutcomes == CommitOutcomes \cup {"ok_null_id"}
NullRevealOutcomes == RevealOutcomes \cup {"ok_null"}

NullRunCycleStep ==
    \E signal \in Signals, outcome \in NullCommitOutcomes :
        /\ RunCycle(signal, outcome)
        /\ UNCHANGED <<loop_vars, conc_vars>>

NullRevealsStep ==
    /\ total_revealed + Len(Ready) <= MaxCount
    /\ \E outcomes \in [1..Len(Ready) -> NullRevealOutcomes] :
           /\ ProcessReveals(outcomes)
           /\ UNCHANGED <<loop_vars, conc_vars>>

NullNext == NullRunCycleStep \/ NullRevealsStep \/ Tick

NullSpec == Init /\ [][NullNext]_vars

\* Python's < on two commitment ids, where the strings are known: a counter
\* id is str(total_committed), a single digit within the bounds explored; an
\* offline id is str(int(time.time())), a ten-digit epoch string that begins
\* with "1", so that "0" and "1" sort before it and "2" to "9" after it, and
\* two of them compare as their numbers. The ids the ledger issues are
\* compared as their sequence numbers; a ledger id and an id made up by the
\* agent are taken as not out of order.
IdBefore(a, b) ==
    CASE a.by = b.by -> a.n < b.n
      [] a.by = "counter" /\ b.by = "offline" -> a.n <= 1
      [] a.by = "offline" /\ b.by = "counter" -> b.n >= 2
      [] OTHER -> FALSE

\* ------------------------------------------------------------------ claims

\* C1: whatever the sequence of submit cycles and reveal passes, and whatever
\* the ledger answers, the active set never holds more than
\* max_active_commitments records.
C1_CapacityInvariant == Len(active_commitments) <= max_active_commitments

\* The active set is full again after a reveal has freed a slot.
C1_Witness ==
    /\ max_active_commitments >= 1
    /\ Len(active_commitments) = max_active_commitments
    /\ total_revealed >= 1

\* C2: a submit cycle run while the active count is at or above
\* max_active_commitments has no effect: no record is created, nothing is
\* posted to /api/commit and total_committed keeps its value (so every cycle
\* is rejected when the limit is 0, and the second one when the limit is 1
\* and nothing was revealed).
C2_RejectedAtCapacity ==
    [][(RunCycleStep /\ Len(active_commitments) >= max_active_commitments)
        => /\ active_commitments' = active_commitments
           /\ commit_posts' = <<>>
           /\ total_committed' = total_committed
           /\ salts_drawn' = salts_drawn]_vars

\* Limit 1, one record accepted, nothing revealed, and the cycle that
\* followed posted nothing.
C2_Witness ==
    /\ max_active_commitments = 1
    /\ Len(active_commitments) = 1
    /\ total_committed = 1
    /\ total_revealed = 0
    /\ commit_posts = <<>>

\* C3: a reveal pass run at time now posts to /api/reveal only for records
\* of the active set whose reveal_after is at most now; a record whose
\* reveal_after is greater than now gets no post.
C3_NoEarlyDisclosure ==
    [][RevealPass =>
        /\ \A i \in DOMAIN reveal_posts' :
              \E c \in {active_commitments[j] : j \in DOMAIN active_commitments} :
                  /\ c.salt = reveal_posts'[i].payload.salt
                  /\ c.commitment_id = reveal_posts'[i].payload.commitment_id
                  /\ now >= c.reveal_after
        /\ \A j \in DOMAIN active_commitments :
              active_commitments[j].reveal_after > now
                  => CountPosts(reveal_posts', active_commitments[j].salt) = 0
      ]_vars

\* A pass disclosed one record and left alone one that was not yet due.
C3_Witness ==
    /\ reveal_posts # <<>>
    /\ \E j \in DOMAIN active_commitments :
          /\ active_commitments[j].reveal_after > now
          /\ CountPosts(reveal_posts, active_commitments[j].salt) = 0

\* C4: a record whose reveal got a response from the ledger is posted once
\* by that pass and removed by it, is never in the active set again, and no
\* later pass posts a reveal for it.
C4_RevealedIsTerminal ==
    [][/\ SaltsOf(active_commitments') \cap revealed' = {}
       /\ RevealPass =>
            /\ \A i \in DOMAIN reveal_posts' :
                  reveal_posts'[i].outcome \in {"ok_verified", "ok_unverified"}
                      => /\ reveal_posts'[i].payload.salt \in revealed'
                         /\ CountSalt(active_commitments',
                                      reveal_posts'[i].payload.salt) = 0
                         /\ CountPosts(reveal_posts',
                                       reveal_posts'[i].payload.salt) = 1
            /\ \A s \in revealed : CountPosts(reveal_posts', s) = 0
      ]_vars

\* A record was revealed earlier, and a later pass posted for another one.
C4_Witness ==
    /\ reveal_posts # <<>>
    /\ \E s \in revealed : CountPosts(reveal_posts, s) = 0

\* C5: when the reveal call for a record ends in an exception, the pass
\* leaves that record in the active set, once and with every field as it
\* was, and total_revealed does not count it.
C5_FailedRevealKeepsRecord ==
    [][RevealPass =>
        /\ \A i \in DOMAIN reveal_posts' :
              reveal_posts'[i].outcome = "req_error"
                  => /\ CountSalt(active_commitments',
                                  reveal_posts'[i].payload.salt) = 1
                     /\ \E j \in DOMAIN active_commitments,
                           k \in DOMAIN active_commitments' :
                           /\ active_commitments[j].salt =
                                  reveal_posts'[i].payload.salt
                           /\ active_commitments'[k] = active_commitments[j]
        /\ total_revealed' >= total_revealed
        /\ total_revealed' <=
               total_revealed + Cardinality(NotRaised(reveal_posts'))
      ]_vars

\* A pass whose reveal call raised, with the record still active.
C5_Witness ==
    \E i \in DOMAIN reveal_posts :
        /\ reveal_posts[i].outcome = "req_error"
        /\ reveal_posts[i].payload.salt \in SaltsOf(active_commitments)

\* C6: when the publish call of a submit cycle ends in an exception, no
\* record is added and total_committed keeps its value.
C6_FailedPublishNoRecord ==
    [][(/\ RunCycleStep
        /\ commit_posts' # <<>>
        /\ commit_posts'[1].outcome = "req_error")
        => /\ active_commitments' = active_commitments
           /\ total_committed' = total_committed]_vars

\* A cycle posted a commitment, the call raised, nothing is active.
C6_Witness ==
    /\ commit_posts # <<>>
    /\ commit_posts[1].outcome = "req_error"
    /\ active_commitments = <<>>
    /\ total_committed = 0

\* C7: when the ledger cannot be reached during publish, the submit cycle
\* creates no record and does not count a submission.
C7_UnreachablePublishNotSuccess ==
    [][(/\ RunCycleStep
        /\ commit_posts' # <<>>
        /\ commit_posts'[1].outcome = "conn_error")
        => /\ active_commitments' = active_commitments
           /\ total_committed' = total_committed]_vars

\* C8: a record leaves the active set only in a pass whose reveal call for it
\* got a response from the ledger; a reveal call that could not reach the
\* ledger leaves the record active and total_revealed as it was.
C8_RemovedOnlyAfterLedgerSuccess ==
    [][RevealPass =>
        /\ \A s \in SaltsOf(active_commitments) \ SaltsOf(active_commitments') :
              \E i \in DOMAIN reveal_posts' :
                  /\ reveal_posts'[i].payload.salt = s
                  /\ reveal_posts'[i].outcome \in {"ok_verified", "ok_unverified"}
        /\ (\A i \in DOMAIN reveal_posts' :
                reveal_posts'[i].outcome \in {"conn_error", "req_error"})
              => total_revealed' = total_revealed
      ]_vars

\* C9: every active record has reveal_after = committed_at + reveal_delay,
\* and no step changes the committed_at or reveal_after of a record that
\* stays in the active set.
C9_RevealAtFixed ==
    [][/\ \A k \in DOMAIN active_commitments' :
              active_commitments'[k].reveal_after =
                  active_commitments'[k].committed_at + reveal_delay'
       /\ \A j \in DOMAIN active_commitments, k \in DOMAIN active_commitments' :
              active_commitments[j].salt = active_commitments'[k].salt
                  => /\ active_commitments'[k].committed_at =
                            active_commitments[j].committed_at
                     /\ active_commitments'[k].reveal_after =
                            active_commitments[j].reveal_after
      ]_vars

\* An older record survived a failed reveal and a later submit.
C9_Witness ==
    /\ Len(active_commitments) = 2
    /\ active_commitments[1].committed_at < active_commitments[2].committed_at
    /\ reveal_delay = 1
    /\ \E i \in DOMAIN reveal_posts :
          /\ reveal_posts[i].outcome = "req_error"
          /\ reveal_posts[i].payload.salt = active_commitments[1].salt

\* C10: for every active record the digest recomputed from the stored signal
\* and salt is the stored commitment_hash, a record keeps its hash as long
\* as it is active, and the hash of a new record is the one its submit
\* cycle posted to /api/commit.
C10_DigestSelfConsistent ==
    [][/\ \A k \in DOMAIN active_commitments' :
              /\ hash_signal(active_commitments'[k].signal,
                             active_commitments'[k].salt)
                     = active_commitments'[k].commitment_hash
              /\ verify_commitment(active_commitments'[k].commitment_hash,
                                   active_commitments'[k].signal,
                                   active_commitments'[k].salt)
       /\ \A j \in DOMAIN active_commitments, k \in DOMAIN active_commitments' :
              active_commitments[j].salt = active_commitments'[k].salt
                  => active_commitments'[k] = active_commitments[j]
       /\ \A k \in DOMAIN active_commitments' :
              active_commitments'[k].salt \notin SaltsOf(active_commitments)
                  => /\ commit_posts' # <<>>
                     /\ commit_posts'[1].payload.commitment_hash =
                            active_commitments'[k].commitment_hash
      ]_vars

\* A record outlived a failed reveal and the clock moved on since its commit.
C10_Witness ==
    \E j \in DOMAIN active_commitments :
        /\ active_commitments[j].committed_at < now
        /\ \E i \in DOMAIN reveal_posts :
              /\ reveal_posts[i].outcome = "req_error"
              /\ reveal_posts[i].payload.salt = active_commitments[j].salt

\* C11: the digest create_commitment produced for (d, s) verifies as true
\* against d and s, and as false against a decision that differs from d in
\* one field, against another salt, and against another digest.
C11_TamperDetection ==
    cr_verify # None =>
        \A c \in CodecCalls :
            LET same_hash == cr_verify.commitment_hash = c.digest
                same_d == SameDict(cr_verify.signal, c.signal)
                same_s == cr_verify.salt = c.salt
            IN  /\ (same_hash /\ same_d /\ same_s) => cr_verify.result
                /\ (same_hash /\ same_s
                        /\ DiffersInOneField(cr_verify.signal, c.signal))
                       => ~cr_verify.result
                /\ (same_hash /\ same_d /\ ~same_s) => ~cr_verify.result
                /\ (~same_hash /\ same_d /\ same_s) => ~cr_verify.result

\* A digest was checked against its decision with one field changed, and
\* the check said no.
C11_Witness ==
    /\ cr_first # None
    /\ cr_verify # None
    /\ cr_verify.commitment_hash = cr_first.digest
    /\ cr_verify.salt = cr_first.salt
    /\ DiffersInOneField(cr_verify.signal, cr_first.signal)
    /\ ~cr_verify.result

\* C12: the digest depends only on the key/value pairs of the decision and
\* on the salt: two calls with the same pairs, in the same or in another key
\* order, and the same salt give the same digest.
C12_KeyOrderInvariance ==
    (/\ cr_first # None
     /\ cr_second # None
     /\ SameDict(cr_first.signal, cr_second.signal)
     /\ cr_first.salt = cr_second.salt)
        => cr_first.digest = cr_second.digest

\* Two calls whose decisions were built in different key orders.
C12_Witness ==
    /\ cr_first # None
    /\ cr_second # None
    /\ cr_first.signal # cr_second.signal
    /\ SameDict(cr_first.signal, cr_second.signal)
    /\ cr_first.salt = cr_second.salt
    /\ cr_first.digest = cr_second.digest

\* C13: with reveal_delay = 0 every active record is eligible in the next
\* reveal pass; after one accepted submit, a pass whose reveal call gets a
\* response from the ledger leaves total_revealed = 1 and no active record
\* with the id of that commitment.
C13_ZeroDelayImmediate ==
    [][(RevealPass /\ reveal_delay = 0) =>
        /\ Len(reveal_posts') = Len(active_commitments)
        /\ (/\ total_committed = 1
            /\ total_revealed = 0
            /\ Len(active_commitments) = 1
            /\ reveal_posts'[1].outcome \in {"ok_verified", "ok_unverified"})
              => /\ total_revealed' = 1
                 /\ reveal_posts'[1].payload.commitment_id =
                        active_commitments[1].commitment_id
                 /\ \A k \in DOMAIN active_commitments' :
                        active_commitments'[k].commitment_id #
                            active_commitments[1].commitment_id
      ]_vars

\* Delay 0: the commitment was posted and revealed at the same clock value.
C13_Witness ==
    /\ reveal_delay = 0
    /\ total_committed = 1
    /\ total_revealed = 1
    /\ active_commitments = <<>>
    /\ commit_posts # <<>>
    /\ Len(reveal_posts) = 1
    /\ reveal_posts[1].outcome \in {"ok_verified", "ok_unverified"}
    /\ reveal_posts[1].payload.timestamp = commit_posts[1].payload.timestamp
    /\ reveal_posts[1].payload.salt = salts_drawn

C15_VerifiedCounted ==
    [][RevealPass =>
        total_verified' = total_verified +
            Cardinality({i \in DOMAIN reveal_posts' :
                            reveal_posts'[i].outcome = "ok_verified"})
      ]_vars

\* C16: a step that yields a statistics dict changes neither the agent nor
\* the network, and the dict held reports the current size of the active
\* set and the current counters.
C16_StatsPureRead ==
    [][/\ (stats' # None /\ stats' # stats) =>
            /\ UNCHANGED engine_vars
            /\ commit_posts' = commit_posts
            /\ reveal_posts' = reveal_posts
       /\ stats' # None =>
            /\ stats'.active_commitments = Len(active_commitments')
            /\ stats'.total_committed = total_committed'
            /\ stats'.total_revealed = total_revealed'
            /\ stats'.total_verified = total_verified'
      ]_vars

\* Statistics read with one record active and one revealed.
C16_Witness ==
    /\ stats # None
    /\ stats.active_commitments = 1
    /\ Len(active_commitments) = 1
    /\ stats.total_revealed = 1
    /\ stats.total_committed = 2

C18_RetriedUntilRevealed ==
    /\ [][RevealPass =>
            \A j \in DOMAIN active_commitments :
                IsReady(active_commitments[j])
                    => CountPosts(reveal_posts', active_commitments[j].salt) = 1
         ]_vars
    /\ \A s \in 1..MaxCommits :
           (\E j \in DOMAIN active_commitments :
                /\ active_commitments[j].salt = s
                /\ active_commitments[j].reveal_after <= MaxTime)
             ~> (s \in revealed /\ s \notin SaltsOf(active_commitments))

\* A record was revealed in a pass later than the first one it was due in.
C18_Witness ==
    \E i \in DOMAIN reveal_posts :
        /\ reveal_posts[i].outcome = "ok_verified"
        /\ reveal_posts[i].payload.salt \in revealed
        /\ reveal_posts[i].payload.timestamp >
               Get(reveal_posts[i].payload.signal, "timestamp") + reveal_delay

\* C19: the payload posted to /api/commit has exactly the fields
\* commitment_hash, stake_amount and timestamp, its commitment_hash being the
\* sha256 digest and its stake_amount the configured stake; the signal and
\* the salt of a record are sent only in a payload posted to /api/reveal, and
\* only by a reveal pass run when now >= reveal_after of that record.
C19_SecretOnlyInDisclose ==
    [][/\ \A i \in DOMAIN commit_posts' :
              LET payload == commit_posts'[i].payload
              IN  /\ DOMAIN payload =
                         {"commitment_hash", "stake_amount", "timestamp"}
                  /\ payload.commitment_hash[1] = "sha256"
                  /\ payload.stake_amount = default_stake
                  /\ payload.timestamp <= now'
       /\ IF RevealPass
          THEN \A i \in DOMAIN reveal_posts' :
                   \E j \in DOMAIN active_commitments :
                       /\ reveal_posts'[i].payload.salt =
                              active_commitments[j].salt
                       /\ reveal_posts'[i].payload.signal =
                              active_commitments[j].signal
                       /\ now >= active_commitments[j].reveal_after
                       /\ now >= active_commitments[j].committed_at
                                  + reveal_delay
          ELSE reveal_posts' = reveal_posts
      ]_vars

\* A record was published, waited out a positive delay and was disclosed.
C19_Witness ==
    /\ reveal_delay > 0
    /\ commit_posts # <<>>
    /\ \E i \in DOMAIN reveal_posts :
          /\ reveal_posts[i].payload.salt =
                 commit_posts[1].payload.commitment_hash[2][2]
          /\ reveal_posts[i].payload.timestamp >=
                 commit_posts[1].payload.timestamp + reveal_delay

\* C20 as stated: the reveal calls of a pass go out in ascending
\* reveal_after order, and records with equal reveal_after are revealed in
\* ascending commitment_id order.
C20_AscendingRevealAtThenId ==
    [][RevealPass =>
         /\ \A i \in DOMAIN Ready :
                reveal_posts'[i].payload.salt = Ready[i].salt
         /\ \A i, j \in DOMAIN Ready :
                i < j =>
                    /\ Ready[i].reveal_after <= Ready[j].reveal_after
                    /\ Ready[i].reveal_after = Ready[j].reveal_after
                         => ~IdBefore(Ready[j].commitment_id,
                                      Ready[i].commitment_id)
      ]_vars

\* C21: in every iteration of run, a publish attempt (a salt is drawn and a
\* digest posted) is made only after the reveal pass of that iteration has
\* run, and makes no reveal call; so when the active set was full at the
\* start of an iteration and the iteration nevertheless appended a record,
\* its reveal pass had removed one.
C21_RevealsBeforePublishes ==
    [][/\ salts_drawn' # salts_drawn
            => /\ iter_revealed
               /\ iter_revealed'
               /\ reveal_posts' = reveal_posts
               /\ total_revealed' = total_revealed
       /\ (iter_full' /\ iter_published' > 0)
            => \E i \in DOMAIN reveal_posts' :
                   /\ reveal_posts'[i].payload.salt \in revealed'
                   /\ reveal_posts'[i].payload.timestamp = now'
      ]_vars

\* An iteration began with a full active set, revealed a record and filled
\* the freed slot again.
C21_Witness ==
    /\ iter_full
    /\ iter_published > 0
    /\ max_active_commitments > 0
    /\ Len(active_commitments) = max_active_commitments
    /\ \E i \in DOMAIN reveal_posts :
          reveal_posts[i].outcome \in {"ok_verified", "ok_unverified"}

\* C22 as stated: with callers of run_cycle on several threads, a caller
\* appends a record only when the active set has a free slot at that moment
\* (the capacity check and the insert are atomic together), so the active
\* set never exceeds max_active_commitments.
C22_CheckAndInsertAtomic ==
    [][\A t \in DOMAIN callers :
           (/\ callers[t] = "checked"
            /\ callers'[t] = "idle"
            /\ Len(active_commitments') > Len(active_commitments))
             => /\ Len(active_commitments) < max_active_commitments
                /\ Len(active_commitments') <= max_active_commitments
      ]_vars

\* C23: the loop of run ends only by a KeyboardInterrupt: a run_cycle that
\* raises (a bad decision, a failure in create_commitment) and a publish or
\* reveal call that fails leave the loop running and the agent's state as
\* it was; and after a raised exception the loop sleeps and then runs the
\* reveal pass and reaches the submit cycles again (within the clock range
\* explored, and unless the user interrupts).
C23_LoopSurvivesErrors ==
    /\ [][(pc # "stopped" /\ pc' = "stopped")
            => \/ LoopInterrupt
               \/ \E i \in DOMAIN reveal_posts' :
                      reveal_posts'[i].outcome = "interrupted"
               \/ \E i \in DOMAIN commit_posts' :
                      commit_posts'[i].outcome = "interrupted"
         ]_vars
    /\ [][(pc = "pairs" /\ pc' = "error")
            => UNCHANGED <<active_commitments, total_committed,
                           total_revealed, salts_drawn>>
         ]_vars
    /\ [][(/\ salts_drawn' # salts_drawn
            /\ \E i \in DOMAIN commit_posts' :
                   commit_posts'[i].outcome = "req_error")
            => pc' \in {"pairs", "sleep"}
         ]_vars
    /\ [][(/\ ~iter_revealed
            /\ iter_revealed'
            /\ \E i \in DOMAIN reveal_posts' :
                   reveal_posts'[i].outcome = "req_error")
            => pc' = "pairs"
         ]_vars
    /\ (pc = "error" /\ now < MaxTime) ~> (pc = "pairs" \/ pc = "stopped")

\* After a run_cycle that raised, a later iteration has run its reveal pass
\* and published a new commitment.
C23_Witness ==
    /\ entropy_failed
    /\ pc = "sleep"
    /\ iter_revealed
    /\ iter_published > 0

\* C24 as stated: once os.urandom has failed in create_commitment, the loop
\* of run halts: no reveal pass and no submit cycle runs after that.
C24_EntropyFailureHalts ==
    [][entropy_failed => ~LoopRevealsStep /\ ~LoopCycleStep]_vars

\* C25 as stated: when the loop of run has stopped, every digest the ledger
\* accepted has (or had, until its reveal) a record in the active set, and
\* every reveal the ledger accepted has been applied: its record is removed.
C25_ShutdownLeavesStateConsistent ==
    pc = "stopped" =>
        /\ ledger_commits \subseteq
               (SaltsOf(active_commitments) \cup revealed)
        /\ ledger_reveals \subseteq revealed
        /\ ledger_reveals \cap SaltsOf(active_commitments) = {}

\* C26: a run_cycle whose decision has confidence below min_confidence
\* posts nothing, draws no salt, appends no record and changes no counter;
\* and every record of the active set holds a decision of confidence at
\* least min_confidence.
C26_LowConfidenceDropped ==
    [][/\ \A signal \in Signals, outcome \in CommitOutcomes :
              (Get(signal, "confidence") < min_confidence
                   /\ RunCycle(signal, outcome))
                => /\ commit_posts' = <<>>
                   /\ UNCHANGED <<active_commitments, salts_drawn,
                                  total_committed, total_revealed,
                                  total_verified, reveal_posts, revealed>>
       /\ \A k \in DOMAIN active_commitments' :
              Get(active_commitments'[k].signal, "confidence")
                  >= min_confidence
      ]_vars

\* A decision below the threshold was dropped by an agent that had a free
\* slot and had committed before.
C26_Witness ==
    /\ commit_posts = <<>>
    /\ Len(active_commitments) = 1
    /\ max_active_commitments = 2
    /\ total_committed = 1

\* C27 as stated: after every submit cycle and every reveal pass,
\* total_committed = total_revealed + the number of active records.
C27_CountersBalance ==
    total_committed = total_revealed + Len(active_commitments)

\* C28 as stated: no two records that are in the active set together have
\* the same commitment_id.
C28_ActiveIdsUnique ==
    \A i, j \in DOMAIN active_commitments :
        i # j => active_commitments[i].commitment_id
                     # active_commitments[j].commitment_id

\* C29: a reveal pass makes one reveal call for each record that was due
\* when it started, in the order of the list, whatever the calls before it
\* did: a record whose call was answered is removed, a record whose call
\* raised stays, and neither keeps the pass from calling for the others.
C29_OneAttemptEach ==
    [][\A outcomes \in [1..Len(Ready) -> LoopRevealOutcomes] :
           ProcessReveals(outcomes) =>
               /\ Len(reveal_posts') = Len(Ready)
               /\ \A i \in DOMAIN Ready :
                      /\ reveal_posts'[i].payload.salt = Ready[i].salt
                      /\ reveal_posts'[i].outcome = outcomes[i]
                      /\ CountPosts(reveal_posts', Ready[i].salt) = 1
                      /\ (outcomes[i] = "ok_verified")
                           = (Ready[i].salt \notin SaltsOf(active_commitments'))
      ]_vars

\* A pass whose first call raised and whose second call was answered.
C29_Witness ==
    /\ Len(reveal_posts) = 2
    /\ reveal_posts[1].outcome = "req_error"
    /\ reveal_posts[2].outcome = "ok_verified"
    /\ reveal_posts[1].payload.salt \in SaltsOf(active_commitments)
    /\ reveal_posts[2].payload.salt \in revealed

====
